---- MODULE Spec2Model ----
(***************************************************************************)
(* Model of resultados_cacti/analise.py: main -> analyze_results ->        *)
(* extract_metrics per listed file -> CSV -> visualisation.                *)
(*                                                                         *)
(* Text is a sequence of tokens.  A token is one character, or one literal *)
(* the program only ever searches for as a whole (a marker, a label of     *)
(* PATTERNS with its colon), or one literal the program only ever writes   *)
(* ("valid", "N/A", "2048", ...).  File bytes are tokens too; the tokens   *)
(* whose bytes differ between encodings carry the encoding in their name.  *)
(* A Python float is modelled by the exact rational n/d of its numeral.    *)
(***************************************************************************)
EXTENDS Integers, Sequences, FiniteSets, TLC

VARIABLES dirExists, listing, pc, i, content, metrics, k, encoding, fallback,
          all_metrics, error_count, valid_count, csv, errlog, fault

vars == <<dirExists, listing, pc, i, content, metrics, k, encoding, fallback,
          all_metrics, error_count, valid_count, csv, errlog, fault>>

(* ------------------------------ bounds --------------------------------- *)
MaxFiles == 2
MaxFrags == 2

(* ------------------------------ values --------------------------------- *)
Str(s) == [t |-> "str", s |-> s, n |-> 0, d |-> 1]
Num(n, d) == [t |-> "num", s |-> <<>>, n |-> n, d |-> d]
IsNum(v) == v.t = "num"
NumEq(a, b) == IsNum(a) /\ IsNum(b) /\ a.n * b.d = b.n * a.d
Mul(a, b) == Num(a.n * b.n, a.d * b.d)
Div(a, b) == Num(a.n * b.d, a.d * b.n)

Digits == {"0", "1", "2", "3", "4", "5", "6", "7", "8", "9"}
DigitVal(c) ==
  CASE c = "0" -> 0 [] c = "1" -> 1 [] c = "2" -> 2 [] c = "3" -> 3
    [] c = "4" -> 4 [] c = "5" -> 5 [] c = "6" -> 6 [] c = "7" -> 7
    [] c = "8" -> 8 [] c = "9" -> 9
Whitespace == {" ", "\n"}

RECURSIVE CountOf(_, _)
CountOf(s, c) ==
  IF s = <<>> THEN 0
  ELSE (IF Head(s) = c THEN 1 ELSE 0) + CountOf(Tail(s), c)

\* str.isdigit(): non-empty and every character a digit
IsDigitStr(s) == s # <<>> /\ \A j \in 1..Len(s) : s[j] \in Digits

\* str.replace('.', '', 1): the first '.' removed
RECURSIVE ReplaceFirstDot(_)
ReplaceFirstDot(s) ==
  IF s = <<>> THEN <<>>
  ELSE IF Head(s) = "." THEN Tail(s)
  ELSE <<Head(s)>> \o ReplaceFirstDot(Tail(s))

\* float(str) on a string of digits and dots: succeeds iff there is at most
\* one '.' and at least one digit ("1.", ".5", "15" convert; ".", "1.2.3" raise)
CanFloat(s) ==
  /\ \A j \in 1..Len(s) : s[j] \in Digits \cup {"."}
  /\ CountOf(s, ".") <= 1
  /\ \E j \in 1..Len(s) : s[j] \in Digits

RECURSIVE IntOf(_, _)
IntOf(s, acc) ==
  IF s = <<>> THEN acc
  ELSE IF Head(s) = "." THEN IntOf(Tail(s), acc)
  ELSE IntOf(Tail(s), 10 * acc + DigitVal(Head(s)))

RECURSIVE Pow10(_)
Pow10(e) == IF e = 0 THEN 1 ELSE 10 * Pow10(e - 1)

RECURSIVE AfterDot(_)
AfterDot(s) ==
  IF s = <<>> THEN 0
  ELSE IF Head(s) = "." THEN Len(s) - 1
  ELSE AfterDot(Tail(s))

Float(s) == Num(IntOf(s, 0), Pow10(AfterDot(s)))

(* ------------------------------ strings -------------------------------- *)
\* str.split(sep): the segments between occurrences of sep, empty ones kept
RECURSIVE SplitAcc(_, _, _)
SplitAcc(s, sep, cur) ==
  IF s = <<>> THEN <<cur>>
  ELSE IF Head(s) = sep THEN <<cur>> \o SplitAcc(Tail(s), sep, <<>>)
  ELSE SplitAcc(Tail(s), sep, Append(cur, Head(s)))

Split(s, sep) == SplitAcc(s, sep, <<>>)

RECURSIVE LStrip(_)
LStrip(s) ==
  IF s # <<>> /\ Head(s) \in Whitespace THEN LStrip(Tail(s)) ELSE s

RECURSIVE RStrip(_)
RStrip(s) ==
  IF s # <<>> /\ s[Len(s)] \in Whitespace
  THEN RStrip(SubSeq(s, 1, Len(s) - 1)) ELSE s

Strip(s) == RStrip(LStrip(s))

Contains(s, tok) == \E j \in 1..Len(s) : s[j] = tok

EndsWithOut(name) ==
  /\ Len(name) >= 4
  /\ SubSeq(name, Len(name) - 3, Len(name)) = <<".", "o", "u", "t">>

(* ------------------------------ constants ------------------------------ *)
INVALID_MARK == "CONFIGURAÇÃO INVÁLIDA"
ERRO_MARK == "ERRO NA EXECUÇÃO"
ERROR_MARK == "ERROR"
MOTIVO == "Motivo:"

PATTERNS == <<
  [key |-> "cache_size",    label |-> "Cache size:",                    cls |-> "d"],
  [key |-> "block_size",    label |-> "Block size:",                    cls |-> "d"],
  [key |-> "associativity", label |-> "Associativity:",                 cls |-> "d"],
  [key |-> "access_time",   label |-> "Access time (ns):",              cls |-> "f"],
  [key |-> "cycle_time",    label |-> "Cycle time (ns):",               cls |-> "f"],
  [key |-> "read_energy",   label |-> "Read Energy (nJ):",              cls |-> "f"],
  [key |-> "write_energy",  label |-> "Write Energy (nJ):",             cls |-> "f"],
  [key |-> "leakage_power", label |-> "Leakage Power Closed Page (mW):", cls |-> "f"],
  [key |-> "area",          label |-> "Cache height x width (mm):",     cls |-> "f"],
  [key |-> "sets",          label |-> "Number of sets:",                cls |-> "d"],
  [key |-> "banks",         label |-> "Cache banks (UCA):",             cls |-> "d"] >>

fieldnames == <<"filename", "status", "cache_size", "block_size",
                "associativity", "access_time", "cycle_time", "read_energy",
                "write_energy", "leakage_power", "area_mm2", "efficiency",
                "sets", "banks">>

NA == Str(<<"N/A">>)

(* ------------------------------ reader --------------------------------- *)
\* Bytes of the markers in either encoding, and a lone byte 0xFF.
Latin1Only == {"INV@latin1", "ERRO@latin1", "\\xff"}

Utf8Char(b) ==
  CASE b = "INV@utf8" -> INVALID_MARK
    [] b = "ERRO@utf8" -> ERRO_MARK
    [] OTHER -> b

\* codec utf-8, strict: bytes that are not well-formed UTF-8 raise
Utf8Decode(bytes) ==
  IF \E j \in 1..Len(bytes) : bytes[j] \in Latin1Only
  THEN [ok |-> FALSE, text |-> <<>>]
  ELSE [ok |-> TRUE, text |-> [j \in 1..Len(bytes) |-> Utf8Char(bytes[j])]]

Latin1Char(b) ==
  CASE b = "INV@utf8" -> "CONFIGURAÃ\\x87Ã\\x83O INVÃ\\x81LIDA"
    [] b = "ERRO@utf8" -> "ERRO NA EXECUÃ\\x87Ã\\x83O"
    [] b = "INV@latin1" -> INVALID_MARK
    [] b = "ERRO@latin1" -> ERRO_MARK
    [] b = "\\xff" -> "ÿ"
    [] OTHER -> b

\* variant: a codec that rejects byte 0xFF
Latin1Decode_Strict(bytes) ==
  IF Contains(bytes, "\\xff")
  THEN [ok |-> FALSE, text |-> <<>>]
  ELSE [ok |-> TRUE, text |-> [j \in 1..Len(bytes) |-> Latin1Char(bytes[j])]]

\* codec latin-1 (alias iso-8859-1): every byte is a character
Latin1Decode(bytes) == [ok |-> TRUE, text |-> [j \in 1..Len(bytes) |-> Latin1Char(bytes[j])]]

Cp1252Char(b) ==
  IF b = "ERRO@utf8" THEN "ERRO NA EXECU\\xc3\\u2021\\xc3\\u0192O" ELSE Latin1Char(b)

\* codec cp1252: byte 0x81 (in the UTF-8 bytes of 'Á') is undefined
Cp1252Decode(bytes) ==
  IF Contains(bytes, "INV@utf8")
  THEN [ok |-> FALSE, text |-> <<>>]
  ELSE [ok |-> TRUE, text |-> [j \in 1..Len(bytes) |-> Cp1252Char(bytes[j])]]

IgnoreChar(b) ==
  CASE b = "INV@utf8" -> INVALID_MARK
    [] b = "ERRO@utf8" -> ERRO_MARK
    [] b = "INV@latin1" -> "CONFIGURAO INVLIDA"
    [] b = "ERRO@latin1" -> "ERRO NA EXECUO"
    [] OTHER -> b

\* codec utf-8 with errors='ignore': ill-formed bytes are dropped
Utf8Ignore(bytes) ==
  LET kept == SelectSeq(bytes, LAMBDA b : b # "\\xff")
  IN [j \in 1..Len(kept) |-> IgnoreChar(kept[j])]

encodings == <<"utf-8", "latin-1", "cp1252", "iso-8859-1">>

Decode(enc, bytes) ==
  CASE enc = "utf-8" -> Utf8Decode(bytes)
    [] enc = "latin-1" -> Latin1Decode(bytes)
    [] enc = "cp1252" -> Cp1252Decode(bytes)
    [] enc = "iso-8859-1" -> Latin1Decode(bytes)

\* How often open() on the file succeeds before it fails for good.
\* 0: a directory, no permission, already removed; Always: never fails.
Always == Len(encodings) + 1
Avails == {0, 1, Always}

ErroDeLeitura == Str(<<"Erro de leitura: ", "OSError">>)

\* lines 30-46.  e: index of the encoding being tried; opens: successful
\* open() calls so far.  An OSError of open() inside the loop is not a
\* UnicodeDecodeError and leaves the function.
RECURSIVE ReadLoop(_, _, _)
ReadLoop(f, e, opens) ==
  IF e > Len(encodings)
  THEN IF opens >= f.avail
       THEN [kind |-> "record", text |-> <<>>, encoding |-> e - 1, fallback |-> TRUE]
       ELSE [kind |-> "content", text |-> Utf8Ignore(f.bytes),
             encoding |-> e - 1, fallback |-> TRUE]
  ELSE IF opens >= f.avail
       THEN [kind |-> "raise", text |-> <<>>, encoding |-> e, fallback |-> FALSE]
       ELSE IF Decode(encodings[e], f.bytes).ok
            THEN [kind |-> "content", text |-> Decode(encodings[e], f.bytes).text,
                  encoding |-> e, fallback |-> FALSE]
            ELSE ReadLoop(f, e + 1, opens + 1)

ReadContent(f) == ReadLoop(f, 1, 0)

(* ------------------------------ classifier ----------------------------- *)
\* line 50: content.split("Motivo:")[1].strip() if "Motivo:" in content
\*          else "Invalid configuration"
ReasonOf(text) ==
  IF Contains(text, MOTIVO)
  THEN Str(Strip(Split(text, MOTIVO)[2]))
  ELSE Str(<<"Invalid configuration">>)

InvalidRecord(text) ==
  ("status" :> Str(<<"invalid">>)) @@ ("reason" :> ReasonOf(text))

RuntimeErrorRecord ==
  ("status" :> Str(<<"error">>)) @@ ("reason" :> Str(<<"Runtime error">>))

ReadErrorRecord ==
  ("status" :> Str(<<"error">>)) @@ ("reason" :> ErroDeLeitura)

IsInvalidContent(text) == Contains(text, INVALID_MARK)
IsErrorContent(text) == Contains(text, ERRO_MARK) \/ Contains(text, ERROR_MARK)

\* variant: the segments counted from the first one
FilenameMetrics_Shifted(name) ==
  LET parts == Split(name, "_") IN
    ("cache_size" :> (IF Len(parts) > 0 THEN Str(parts[1]) ELSE Str(<<"2048">>)))
    @@ ("block_size" :> (IF Len(parts) > 1 THEN Str(parts[2]) ELSE Str(<<"?">>)))
    @@ ("associativity" :>
          (IF Len(parts) > 2 THEN Str(Split(parts[3], ".")[1]) ELSE Str(<<"?">>)))
    @@ ("status" :> Str(<<"valid">>))

\* lines 56-63: parameters from the underscore-delimited file name
FilenameMetrics(name) ==
  LET parts == Split(name, "_") IN
    ("cache_size" :> (IF Len(parts) > 1 THEN Str(parts[2]) ELSE Str(<<"2048">>)))
    @@ ("block_size" :> (IF Len(parts) > 2 THEN Str(parts[3]) ELSE Str(<<"?">>)))
    @@ ("associativity" :>
          (IF Len(parts) > 3 THEN Str(Split(parts[4], ".")[1]) ELSE Str(<<"?">>)))
    @@ ("status" :> Str(<<"valid">>))

(* ------------------------------ extractor ------------------------------ *)
RECURSIVE Run(_, _, _)
Run(s, j, set) ==
  IF j <= Len(s) /\ s[j] \in set THEN <<s[j]>> \o Run(s, j + 1, set) ELSE <<>>

RECURSIVE SkipWs(_, _)
SkipWs(s, j) ==
  IF j <= Len(s) /\ s[j] \in Whitespace THEN SkipWs(s, j + 1) ELSE j

CharClass(cls) == IF cls = "d" THEN Digits ELSE Digits \cup {"."}

\* The pattern of p tried at position i0: label, \s*, a greedy capture; for
\* "area" followed by the literal " x " and a second greedy capture.
MatchAt(s, i0, p) ==
  LET j  == SkipWs(s, i0 + 1)
      g1 == Run(s, j, CharClass(p.cls))
      j2 == j + Len(g1)
      g2 == Run(s, j2 + 3, CharClass(p.cls))
  IN IF s[i0] # p.label \/ g1 = <<>>
     THEN [ok |-> FALSE, g1 |-> <<>>, g2 |-> <<>>]
     ELSE IF p.key # "area"
     THEN [ok |-> TRUE, g1 |-> g1, g2 |-> <<>>]
     ELSE IF j2 + 2 <= Len(s) /\ SubSeq(s, j2, j2 + 2) = <<" ", "x", " ">> /\ g2 # <<>>
     THEN [ok |-> TRUE, g1 |-> g1, g2 |-> g2]
     ELSE [ok |-> FALSE, g1 |-> <<>>, g2 |-> <<>>]

\* re.search: the leftmost match
RECURSIVE SearchFrom(_, _, _)
SearchFrom(s, i0, p) ==
  IF i0 > Len(s) THEN [ok |-> FALSE, g1 |-> <<>>, g2 |-> <<>>]
  ELSE IF MatchAt(s, i0, p).ok THEN MatchAt(s, i0, p)
  ELSE SearchFrom(s, i0 + 1, p)

Search(s, p) == SearchFrom(s, 1, p)

\* lines 70-75: the assignments before the first ValueError stay
AreaFields(m, g1, g2) ==
  IF ~CanFloat(g1) THEN m
  ELSE IF ~CanFloat(g2) THEN ("height_mm" :> Float(g1)) @@ m
  ELSE ("area_mm2" :> Mul(Float(g1), Float(g2)))
       @@ ("width_mm" :> Float(g2)) @@ ("height_mm" :> Float(g1)) @@ m

\* line 78: float when the capture minus one '.' is all digits, else raw text
Coerce(g) == IF IsDigitStr(ReplaceFirstDot(g)) THEN Float(g) ELSE Str(g)

\* variant: a capture kept as raw text turns the record into an error
ApplyPattern_Escalating(m, text, p) ==
  LET match == Search(text, p) IN
    IF ~match.ok THEN m
    ELSE IF p.key = "area" THEN AreaFields(m, match.g1, match.g2)
    ELSE IF IsNum(Coerce(match.g1)) THEN (p.key :> Coerce(match.g1)) @@ m
    ELSE ("status" :> Str(<<"error">>)) @@ ("reason" :> Str(match.g1)) @@ m

\* lines 67-80 for one entry of PATTERNS
ApplyPattern(m, text, p) ==
  LET match == Search(text, p) IN
    IF ~match.ok THEN m
    ELSE IF p.key = "area" THEN AreaFields(m, match.g1, match.g2)
    ELSE (p.key :> Coerce(match.g1)) @@ m

\* float(x) of a field: a float is itself, raw text converts or raises
FieldFloats(v) == IsNum(v) \/ CanFloat(v.s)
FieldFloat(v) == IF IsNum(v) THEN v ELSE Float(v.s)

\* variant: a failed derivation defaults the field to zero
WithEfficiency_ZeroDefault(m) ==
  IF "access_time" \in DOMAIN m /\ "cycle_time" \in DOMAIN m
  THEN IF /\ FieldFloats(m["access_time"])
          /\ FieldFloats(m["cycle_time"])
          /\ FieldFloat(m["cycle_time"]).n # 0
       THEN ("efficiency" :> Div(FieldFloat(m["access_time"]), FieldFloat(m["cycle_time"]))) @@ m
       ELSE ("efficiency" :> Num(0, 1)) @@ m
  ELSE m

\* lines 83-87: any exception (ValueError, ZeroDivisionError) is swallowed
WithEfficiency(m) ==
  IF "access_time" \in DOMAIN m /\ "cycle_time" \in DOMAIN m
  THEN IF /\ FieldFloats(m["access_time"])
          /\ FieldFloats(m["cycle_time"])
          /\ FieldFloat(m["cycle_time"]).n # 0
       THEN ("efficiency" :> Div(FieldFloat(m["access_time"]), FieldFloat(m["cycle_time"]))) @@ m
       ELSE m
  ELSE m

(* ------------------------------ aggregator ----------------------------- *)
Get(m, field, default) == IF field \in DOMAIN m THEN m[field] ELSE default

\* line 125
Row(m) == [c \in 1..Len(fieldnames) |-> Get(m, fieldnames[c], NA)]

Header == [c \in 1..Len(fieldnames) |-> Str(<<fieldnames[c]>>)]

\* variant: the rows written last record first
Rows_Reversed(ms) == [r \in 1..Len(ms) |-> Row(ms[Len(ms) + 1 - r])]

Rows(ms) == [r \in 1..Len(ms) |-> Row(ms[r])]

(* ------------------------------ inputs --------------------------------- *)
ACC == "Access time (ns):"
CYC == "Cycle time (ns):"
AREA == "Cache height x width (mm):"
CACHE == "Cache size:"
ASSOC == "Associativity:"

Fragments == {
  <<"INV@utf8", "\n">>,
  <<"INV@latin1", "\n">>,
  <<MOTIVO, " ", "\n">>,
  <<MOTIVO, " ", "a", "\n">>,
  <<ERROR_MARK, "\n">>,
  <<"\\xff", "\n">>,
  <<ACC, " ", "1", ".", "5", "\n">>,
  <<ACC, " ", "1", ".", ".", "\n">>,
  <<CYC, " ", "2", ".", "5", "\n">>,
  <<CYC, " ", "0", "\n">>,
  <<AREA, " ", "2", " ", "x", " ", ".", "5", "\n">>,
  <<AREA, " ", "2", " ", "x", " ", ".", "\n">>,
  <<AREA, " ", ".", " ", "x", " ", "2", "\n">>,
  <<CACHE, " ", "8", "\n">>,
  <<ASSOC, " ", "2", "\n">>,
  <<"ERRO@utf8", "\n">> }

RECURSIVE Concats(_)
Concats(n) ==
  IF n = 0 THEN {<<>>}
  ELSE Concats(n - 1) \cup {c \o f : c \in Concats(n - 1), f \in Fragments}

Contents == Concats(MaxFrags)

OutNames == {
  <<"r", "_", "4", "_", "6", "_", "8", ".", "o", "u", "t">>,
  <<"r", ".", "o", "u", "t">>,
  <<"r", "_", "_", "6", "_", "8", ".", "o", "u", "t">>,
  <<"r", "_", "4", ".", "o", "u", "t">> }

File(name, bytes, avail) == [name |-> name, bytes |-> bytes, avail |-> avail]

\* one file, any content
SingleListings ==
  {<<File(nm, c, a)>> : nm \in OutNames, c \in Contents, a \in Avails}

BatchEntries == {
  File(<<"r", "_", "4", "_", "6", "_", "8", ".", "o", "u", "t">>,
       <<ACC, " ", "1", ".", "5", "\n", CYC, " ", "2", ".", "5", "\n">>, Always),
  File(<<"r", ".", "o", "u", "t">>, <<"INV@latin1", "\n", MOTIVO, " ", "a", "\n">>, Always),
  File(<<"r", "_", "_", "6", "_", "8", ".", "o", "u", "t">>, <<ERROR_MARK, "\n">>, Always),
  File(<<"r", "_", "4", ".", "o", "u", "t">>, <<>>, 0),
  File(<<"r", ".", "t", "x", "t">>, <<>>, Always),
  File(<<"o", "u", "t">>, <<CACHE, " ", "8", "\n">>, Always) }

RECURSIVE SeqsUpTo(_)
SeqsUpTo(n) ==
  IF n = 0 THEN {<<>>}
  ELSE SeqsUpTo(n - 1) \cup
       {Append(l, e) : l \in SeqsUpTo(n - 1), e \in BatchEntries}

\* os.listdir names are distinct
DistinctNames(l) ==
  \A a, b \in 1..Len(l) : a # b => l[a].name # l[b].name

BatchListings == {l \in SeqsUpTo(MaxFiles) : DistinctNames(l)}

Listings == BatchListings \cup SingleListings

(* ------------------------------ state machine -------------------------- *)
Init ==
  /\ dirExists \in BOOLEAN
  /\ listing \in (IF dirExists THEN Listings ELSE {<<>>})
  /\ pc = "main"
  /\ i = 0
  /\ content = <<>>
  /\ metrics = <<>>
  /\ k = 0
  /\ encoding = 0
  /\ fallback = FALSE
  /\ all_metrics = <<>>
  /\ error_count = 0
  /\ valid_count = 0
  /\ csv = <<>>
  /\ errlog = <<>>
  /\ fault = "none"

\* lines 216-223 and 93-95
Main ==
  /\ pc = "main"
  /\ IF ~dirExists
     THEN /\ dirExists' = TRUE
          /\ pc' = "created"
          /\ i' = i
     ELSE /\ dirExists' = dirExists
          /\ pc' = "loop"
          /\ i' = 1
  /\ UNCHANGED <<listing, content, metrics, k, encoding, fallback, all_metrics,
                 error_count, valid_count, csv, errlog, fault>>

\* lines 100-101, an entry that is no .out file
SkipEntry ==
  /\ pc = "loop"
  /\ i <= Len(listing)
  /\ ~EndsWithOut(listing[i].name)
  /\ i' = i + 1
  /\ UNCHANGED <<dirExists, listing, pc, content, metrics, k, encoding, fallback,
                 all_metrics, error_count, valid_count, csv, errlog, fault>>

\* lines 100-103 and 30-46
ReadFile ==
  /\ pc = "loop"
  /\ i <= Len(listing)
  /\ EndsWithOut(listing[i].name)
  /\ LET r == ReadContent(listing[i]) IN
       /\ encoding' = r.encoding
       /\ fallback' = r.fallback
       /\ content' = r.text
       /\ pc' = CASE r.kind = "content" -> "classify"
                  [] r.kind = "record" -> "append"
                  [] r.kind = "raise" -> "crashed"
       /\ metrics' = IF r.kind = "record" THEN ReadErrorRecord ELSE metrics
       /\ fault' = IF r.kind = "raise" THEN "extract_metrics" ELSE fault
  /\ UNCHANGED <<dirExists, listing, i, k, all_metrics, error_count,
                 valid_count, csv, errlog>>

\* lines 48-63
Classify ==
  /\ pc = "classify"
  /\ IF IsInvalidContent(content)
     THEN metrics' = InvalidRecord(content) /\ pc' = "append" /\ k' = k
     ELSE IF IsErrorContent(content)
     THEN metrics' = RuntimeErrorRecord /\ pc' = "append" /\ k' = k
     ELSE metrics' = FilenameMetrics(listing[i].name) /\ pc' = "extract" /\ k' = 1
  /\ UNCHANGED <<dirExists, listing, i, content, encoding, fallback, all_metrics,
                 error_count, valid_count, csv, errlog, fault>>

\* lines 66-80, one iteration
ExtractPattern ==
  /\ pc = "extract"
  /\ metrics' = ApplyPattern(metrics, content, PATTERNS[k])
  /\ IF k < Len(PATTERNS)
     THEN k' = k + 1 /\ pc' = pc
     ELSE k' = 0 /\ pc' = "derive"
  /\ UNCHANGED <<dirExists, listing, i, content, encoding, fallback, all_metrics,
                 error_count, valid_count, csv, errlog, fault>>

\* lines 82-89
Derive ==
  /\ pc = "derive"
  /\ metrics' = WithEfficiency(metrics)
  /\ pc' = "append"
  /\ UNCHANGED <<dirExists, listing, i, content, k, encoding, fallback,
                 all_metrics, error_count, valid_count, csv, errlog, fault>>

IsFailure(m) == m["status"] \in {Str(<<"error">>), Str(<<"invalid">>)}

\* lines 104-110
AppendRecord ==
  /\ pc = "append"
  /\ all_metrics' = Append(all_metrics, ("filename" :> Str(listing[i].name)) @@ metrics)
  /\ IF IsFailure(metrics)
     THEN error_count' = error_count + 1 /\ valid_count' = valid_count
     ELSE valid_count' = valid_count + 1 /\ error_count' = error_count
  /\ i' = i + 1
  /\ pc' = "loop"
  /\ content' = <<>>
  /\ metrics' = <<>>
  /\ UNCHANGED <<dirExists, listing, k, encoding, fallback, csv, errlog, fault>>

\* lines 112-133; opening the CSV for writing may fail, and nothing in
\* analyze_results or around its call in main catches that
WriteCSV ==
  /\ pc = "loop"
  /\ i > Len(listing)
  /\ \E ok \in BOOLEAN :
       IF ok
       THEN csv' = <<Header>> \o Rows(all_metrics) /\ pc' = "visualize" /\ fault' = fault
       ELSE csv' = csv /\ pc' = "crashed" /\ fault' = "analyze_results"
  /\ UNCHANGED <<dirExists, listing, i, content, metrics, k, encoding, fallback,
                 all_metrics, error_count, valid_count, errlog>>

\* lines 225-246; pandas / matplotlib either succeed or raise
Visualize ==
  /\ pc = "visualize"
  /\ \E ok \in BOOLEAN :
       errlog' = IF ok THEN errlog ELSE Append(errlog, "Erro: visualize")
  /\ pc' = "done"
  /\ UNCHANGED <<dirExists, listing, i, content, metrics, k, encoding, fallback,
                 all_metrics, error_count, valid_count, csv, fault>>

Next ==
  \/ Main
  \/ SkipEntry
  \/ ReadFile
  \/ Classify
  \/ ExtractPattern
  \/ Derive
  \/ AppendRecord
  \/ WriteCSV
  \/ Visualize

Spec == Init /\ [][Next]_vars

TypeOK ==
  /\ pc \in {"main", "created", "loop", "classify", "extract", "derive",
             "append", "visualize", "done", "crashed"}
  /\ i \in 0..(Len(listing) + 1)
  /\ k \in 0..Len(PATTERNS)
  /\ Len(all_metrics) = error_count + valid_count

(* ------------------------------ properties ----------------------------- *)
VALID == Str(<<"valid">>)
INVALID == Str(<<"invalid">>)
ERROR == Str(<<"error">>)

Has(m, key) == key \in DOMAIN m

\* the record being built is complete when it waits to be appended
Returned == pc = "append"

AnalyzeDone == pc \in {"visualize", "done"}

\* C1: in every valid record height_mm, width_mm and area_mm2 are all present
\* with area_mm2 = height_mm * width_mm, or all absent.
C1_AreaAllOrNothing ==
  \A j \in 1..Len(all_metrics) :
    LET m == all_metrics[j] IN
      m["status"] = VALID =>
        \/ /\ Has(m, "height_mm") /\ Has(m, "width_mm") /\ Has(m, "area_mm2")
           /\ NumEq(m["area_mm2"], Mul(m["height_mm"], m["width_mm"]))
        \/ ~Has(m, "height_mm") /\ ~Has(m, "width_mm") /\ ~Has(m, "area_mm2")

\* C2: a listed .out file that cannot be opened yields a record with
\* status=error and a reason, the record is appended, and the batch goes on:
\* the failure never leaves extract_metrics as a fault.
C2_OpenFailureCaptured ==
  /\ fault # "extract_metrics"
  /\ \A j \in 1..Len(listing) :
       (j < i /\ EndsWithOut(listing[j].name) /\ listing[j].avail = 0) =>
         \E r \in 1..Len(all_metrics) :
           /\ all_metrics[r]["filename"] = Str(listing[j].name)
           /\ all_metrics[r]["status"] = ERROR
           /\ Has(all_metrics[r], "reason")

\* C3: a file whose decoded content contains the invalid-configuration marker
\* gets status=invalid and a non-empty reason, whatever else it contains.
C3_InvalidHasReason ==
  (Returned /\ IsInvalidContent(content)) =>
    /\ metrics["status"] = INVALID
    /\ Has(metrics, "reason")
    /\ metrics["reason"].s # <<>>

Segments(name) == Split(name, "_")

FromFilename(name, key) ==
  CASE key = "cache_size" ->
         IF Len(Segments(name)) >= 2 THEN Str(Segments(name)[2]) ELSE Str(<<"2048">>)
    [] key = "block_size" ->
         IF Len(Segments(name)) >= 3 THEN Str(Segments(name)[3]) ELSE Str(<<"?">>)
    [] key = "associativity" ->
         IF Len(Segments(name)) >= 4
         THEN Str(Split(Segments(name)[4], ".")[1]) ELSE Str(<<"?">>)

ParamKeys == {"cache_size", "block_size", "associativity"}

PatternOf(key) == PATTERNS[CHOOSE n \in 1..Len(PATTERNS) : PATTERNS[n].key = key]

\* C4 (as stated): in every valid record cache_size, block_size and
\* associativity are the file name's segments, whatever the content is.
C4_ParamsFromFilenameAlways ==
  (Returned /\ metrics["status"] = VALID) =>
    \A key \in ParamKeys : metrics[key] = FromFilename(listing[i].name, key)

\* C4 (amended): in every valid record each of cache_size, block_size and
\* associativity is the file name's segment (or its default) unless the
\* content matches the field's own label pattern; then it is the number
\* captured from the content.
C4_ParamsFromFilenameUnlessLabelled ==
  (Returned /\ metrics["status"] = VALID) =>
    \A key \in ParamKeys :
      IF Search(content, PatternOf(key)).ok
      THEN NumEq(metrics[key], Float(Search(content, PatternOf(key)).g1))
      ELSE metrics[key] = FromFilename(listing[i].name, key)

C4_Witness ==
  /\ Returned
  /\ metrics["status"] = VALID
  /\ listing[i].name = <<"r", "_", "4", "_", "6", "_", "8", ".", "o", "u", "t">>
  /\ metrics["cache_size"] = Num(8, 1)
  /\ metrics["block_size"] = Str(<<"6">>)
  /\ metrics["associativity"] = Str(<<"8">>)

\* C5: every data row of the CSV has the 14 columns in the fixed order, a
\* column absent from the record holds "N/A", and no cell is empty.
C5_RowsCompleteNeverBlank ==
  \A r \in 2..Len(csv) :
    /\ Len(csv[r]) = 14
    /\ \A c \in 1..14 :
         /\ Has(all_metrics[r - 1], fieldnames[c]) => csv[r][c] = all_metrics[r - 1][fieldnames[c]]
         /\ ~Has(all_metrics[r - 1], fieldnames[c]) => csv[r][c] = NA
         /\ csv[r][c] # Str(<<>>)

\* C6: in every valid record efficiency is access_time / cycle_time when both
\* are present, numeric and cycle_time is not 0, and absent in every other case.
C6_Efficiency ==
  \A j \in 1..Len(all_metrics) :
    LET m == all_metrics[j] IN
      m["status"] = VALID =>
        IF /\ Has(m, "access_time") /\ Has(m, "cycle_time")
           /\ IsNum(m["access_time"]) /\ IsNum(m["cycle_time"])
           /\ m["cycle_time"].n # 0
        THEN /\ Has(m, "efficiency")
             /\ m["efficiency"].d # 0
             /\ m["efficiency"].n * m["access_time"].d * m["cycle_time"].n
                  = m["access_time"].n * m["cycle_time"].d * m["efficiency"].d
        ELSE ~Has(m, "efficiency")

C6_Witness ==
  \E j \in 1..Len(all_metrics) :
    /\ all_metrics[j]["status"] = VALID
    /\ Has(all_metrics[j], "efficiency")
    /\ NumEq(all_metrics[j]["efficiency"], Num(3, 5))

StatusReasonOK(m) ==
  /\ m["status"] \in {VALID, INVALID, ERROR}
  /\ Has(m, "reason") <=> m["status"] # VALID

\* C7: every record has one status of valid, invalid, error and a reason
\* exactly when the status is not valid; during metric extraction the record
\* stays valid and without a reason.
C7_StatusAndReason ==
  /\ \A j \in 1..Len(all_metrics) : StatusReasonOK(all_metrics[j])
  /\ Returned => StatusReasonOK(metrics)
  /\ pc \in {"extract", "derive"} =>
       metrics["status"] = VALID /\ ~Has(metrics, "reason")

C7_Witness ==
  /\ Returned
  /\ metrics["status"] = VALID
  /\ Has(metrics, "access_time")
  /\ ~IsNum(metrics["access_time"])
  /\ Has(metrics, "cycle_time")
  /\ ~Has(metrics, "efficiency")

OutNamesOf(l) == SelectSeq(l, LAMBDA e : EndsWithOut(e.name))

\* C8: once analyze_results has completed, the data rows of the CSV are the
\* listed names ending in ".out", one row each, in listing order; an empty
\* directory gives the header row only and both counts zero.
C8_RowsFollowListing ==
  AnalyzeDone =>
    /\ Len(csv) = 1 + Len(OutNamesOf(listing))
    /\ csv[1] = Header
    /\ \A r \in 1..Len(OutNamesOf(listing)) :
         csv[r + 1][1] = Str(OutNamesOf(listing)[r].name)
    /\ valid_count + error_count = Len(OutNamesOf(listing))
    /\ listing = <<>> => (csv = <<Header>> /\ valid_count = 0 /\ error_count = 0)

C8_Witness ==
  /\ pc = "done"
  /\ Len(listing) = 2
  /\ Len(csv) = 3
  /\ csv[2][1] # csv[3][1]

\* C9: a failure in the aggregation stage (writing the CSV in
\* analyze_results) or in the visualisation stage never crashes the run, and
\* when a visualisation failure is logged the CSV is complete.
C9_StageFailuresCaught ==
  /\ ~(pc = "crashed" /\ fault = "analyze_results")
  /\ errlog # <<>> => csv = <<Header>> \o Rows(all_metrics)

NoReadErrorReason(m) == Has(m, "reason") => m["reason"] # ErroDeLeitura

\* C10: the encoding loop ends at utf-8 or latin-1, the errors='ignore' read
\* never runs, and no record carries the reason "Erro de leitura: ...".
C10_FallbackUnreachable ==
  /\ encoding <= 2
  /\ ~fallback
  /\ \A j \in 1..Len(all_metrics) : NoReadErrorReason(all_metrics[j])
  /\ Returned => NoReadErrorReason(metrics)

C10_Witness ==
  /\ pc = "classify"
  /\ encoding = 2
  /\ Contains(listing[i].bytes, "\\xff")
  /\ Contains(content, "ÿ")

====
